---- MODULE Spec2Model ----
(***************************************************************************)
(* ShelterSignal: the search page (HomePage + SearchBar), the Next.js      *)
(* proxy route /api/property (handler) and the backend it calls; the       *)
(* InsightsDashboard component with its charts' series, the formatting     *)
(* helpers of lib/utils, and the provider clients.                         *)
(*                                                                         *)
(* Strings are sequences of characters over Chars, so that trim() is a     *)
(* real function.  A message is a sequence of string fragments (a template *)
(* literal is the sequence of its parts); the empty string is << >>.       *)
(* A possibly-undefined message is a record [def, v].                      *)
(***************************************************************************)
EXTENDS Integers, Sequences, FiniteSets, TLC

\* ---------------------------------------------------------------- bounds
MaxLen == 3          \* longest address typed or sent
MaxCalls == 2        \* handleSearchSubmit invocations that may be pending at once

\* ------------------------------------------------------ program constants
BackendTimeoutMs == 15000
ClientTimeoutMs == 30000

\* ------------------------------------------------------------- strings
Chars == {" ", "a"}
Strings == UNION {[1..n -> Chars] : n \in 0..MaxLen}

RECURSIVE trimStart(_)
trimStart(s) ==
    IF s = << >> THEN s
    ELSE IF Head(s) = " " THEN trimStart(Tail(s)) ELSE s

RECURSIVE trimEnd(_)
trimEnd(s) ==
    IF s = << >> THEN s
    ELSE IF s[Len(s)] = " " THEN trimEnd(SubSeq(s, 1, Len(s) - 1)) ELSE s

\* mutant: only the leading whitespace is removed
trim_StartOnly(s) == trimStart(s)

\* String.prototype.trim
trim(s) == trimEnd(trimStart(s))

\* ------------------------------------------------------------ messages
Undefined == [def |-> FALSE, v |-> << >>]
Msg(m) == [def |-> TRUE, v |-> m]
\* JavaScript truthiness of a string-or-undefined value
Truthy(x) == x.def /\ x.v # << >>
\* a || b, for a possibly undefined and b a string
Or(a, b) == IF Truthy(a) THEN a.v ELSE b

\* ------------------------------------------------------- response bodies
\* A JSON body: falsy (null, empty), or an object with an optional message
\* field (ApiErrorResponse) and the identity of its PropertyData, if any.
EmptyBody == [falsy |-> TRUE, id |-> "", message |-> Undefined]
DataBody(p) == [falsy |-> FALSE, id |-> p, message |-> Undefined]
MessageBody(m) == [falsy |-> FALSE, id |-> "", message |-> m]
Null == [falsy |-> TRUE, id |-> "null", message |-> Undefined]

BackendMessages == {Undefined, Msg(<< >>), Msg(<<"Property not found">>)}
Bodies == {EmptyBody, DataBody("p1")} \cup {MessageBody(m) : m \in BackendMessages}

\* data?.message
MessageOf(body) == IF body.falsy THEN Undefined ELSE body.message

\* ------------------------------------------------- results of axios.get
\* k = "response": the server answered (status, data); "timeout", "network":
\* no response (AxiosError without response); "thrown": a non-Axios error.
Response(s, d) == [k |-> "response", status |-> s, data |-> d]
NoResponse(kind) == [k |-> kind, status |-> 0, data |-> EmptyBody]
NoResult == [k |-> "none", status |-> 0, data |-> EmptyBody]

BackendStatuses == {200, 201, 404, 500, 503}
BackendOutcomes ==
    {Response(s, d) : s \in BackendStatuses, d \in Bodies}
        \cup {NoResponse("timeout"), NoResponse("network"), NoResponse("thrown")}

\* axios' default validateStatus
Is2xx(s) == s >= 200 /\ s < 300
Resolved(o) == o.k = "response" /\ Is2xx(o.status)
\* axios.isAxiosError(error), for the error a rejected axios.get carries
isAxiosError(o) == (o.k = "response" /\ ~Is2xx(o.status)) \/ o.k \in {"timeout", "network"}
\* AxiosError.message, as axios sets it
AxiosErrorMessage(o, ms) ==
    IF o.k = "response" THEN <<"Request failed with status code ", ToString(o.status)>>
    ELSE IF o.k = "timeout" THEN <<"timeout of ", ToString(ms), "ms exceeded">>
    ELSE <<"Network Error">>

\* ---------------------------------------------------- the proxy handler
Methods == {"GET", "POST"}
Queries ==
    {[k |-> "undefined", v |-> << >>], [k |-> "array", v |-> <<"a">>]}
        \cup {[k |-> "string", v |-> s] : s \in Strings}

NoResp == [status |-> 0, body |-> EmptyBody, allow |-> {}]
\* res.status(s).json(b)
json(s, b) == [status |-> s, body |-> b, allow |-> {}]
ErrorJson(s, m) == json(s, MessageBody(Msg(m)))
\* res.setHeader('Allow', ['GET'])
setAllow(r) == [r EXCEPT !.allow = {"GET"}]

\* mutant: the method check is dropped
MethodRejected_Dropped(method) == FALSE

\* req.method !== 'GET'
MethodRejected(method) == method # "GET"

\* mutant: the address is tested without trim()
AddressRejected_NoTrim(q) == q.k # "string" \/ q.v = << >>

\* !address || typeof address !== 'string' || address.trim() === ''
AddressRejected(q) ==
    \/ q.k = "undefined"
    \/ (q.k = "string" /\ q.v = << >>)
    \/ q.k # "string"
    \/ trim(q.v) = << >>

RequiredMessage(version) ==
    IF version = 1 THEN <<"Address query parameter is required and cannot be empty.">>
    ELSE <<"Address query parameter is required.">>

NoRequest ==
    [stage |-> "none", method |-> "GET", query |-> [k |-> "undefined", v |-> << >>],
     sent |-> << >>, backendCalls |-> 0, outcome |-> NoResult, resp |-> NoResp,
     responses |-> 0]

\* mutant: the 405 is sent without returning
handlerBegin_NoReturn(version, method, q) ==
    LET r == [NoRequest EXCEPT !.method = method, !.query = q,
                               !.responses = IF MethodRejected(method) THEN 1 ELSE 0,
                               !.resp = IF MethodRejected(method)
                                        THEN setAllow(ErrorJson(405, <<"Method ", method, " Not Allowed">>))
                                        ELSE NoResp] IN
    IF AddressRejected(q)
    THEN [r EXCEPT !.stage = "responded", !.responses = r.responses + 1,
                   !.resp = ErrorJson(400, RequiredMessage(version))]
    ELSE [r EXCEPT !.stage = "awaiting", !.sent = trim(q.v), !.backendCalls = 1]

\* mutant: the address is validated before the method
handlerBegin_AddressFirst(version, method, q) ==
    LET r == [NoRequest EXCEPT !.method = method, !.query = q] IN
    IF AddressRejected(q)
    THEN [r EXCEPT !.stage = "responded", !.responses = r.responses + 1,
                   !.resp = ErrorJson(400, RequiredMessage(version))]
    ELSE IF MethodRejected(method)
    THEN [r EXCEPT !.stage = "responded", !.responses = r.responses + 1,
                   !.resp = setAllow(ErrorJson(405, <<"Method ", method, " Not Allowed">>))]
    ELSE [r EXCEPT !.stage = "awaiting", !.sent = trim(q.v), !.backendCalls = 1]

\* handler, up to the await of axios.get: the response it sends at once, or
\* the backend call it issues with params { address: address.trim() }
handlerBegin(version, method, q) ==
    LET r == [NoRequest EXCEPT !.method = method, !.query = q] IN
    IF MethodRejected(method)
    THEN [r EXCEPT !.stage = "responded", !.responses = r.responses + 1,
                   !.resp = setAllow(ErrorJson(405, <<"Method ", method, " Not Allowed">>))]
    ELSE IF AddressRejected(q)
    THEN [r EXCEPT !.stage = "responded", !.responses = r.responses + 1,
                   !.resp = ErrorJson(400, RequiredMessage(version))]
    ELSE [r EXCEPT !.stage = "awaiting", !.sent = trim(q.v), !.backendCalls = 1]

\* mutant: the backend's status is not relayed
StatusOr500_Always500(o) == 500

\* mutant: the fallback status is 404
StatusOr500_Or404(o) == IF o.k = "response" /\ o.status # 0 THEN o.status ELSE 404

\* status || 500
StatusOr500(o) == IF o.k = "response" /\ o.status # 0 THEN o.status ELSE 500

\* mutant: every resolved backend response is relayed, whatever its status and body
handlerResponse1_RelayAll(o) ==
    IF Resolved(o)
    THEN json(o.status, o.data)
    ELSE IF isAxiosError(o)
    THEN ErrorJson(StatusOr500(o),
                   Or(MessageOf(o.data), AxiosErrorMessage(o, BackendTimeoutMs)))
    ELSE ErrorJson(500, <<"An unexpected error occurred while fetching property data.">>)

\* mutant: an Axios error is answered 500 whatever the backend's status
handlerResponse1_Fixed500(o) ==
    IF Resolved(o)
    THEN IF o.status = 200 /\ ~o.data.falsy
         THEN json(200, o.data)
         ELSE ErrorJson(500, <<"Received invalid response from backend service.">>)
    ELSE IF isAxiosError(o)
    THEN ErrorJson(500,
                   Or(MessageOf(o.data),
                      Or(Msg(AxiosErrorMessage(o, BackendTimeoutMs)),
                         <<"Error fetching data from backend service.">>)))
    ELSE ErrorJson(500, <<"An unexpected error occurred while fetching property data.">>)

\* the try/catch around axios.get, first version of the route
handlerResponse1(o) ==
    IF Resolved(o)
    THEN IF o.status = 200 /\ ~o.data.falsy
         THEN json(200, o.data)
         ELSE ErrorJson(500, <<"Received invalid response from backend service.">>)
    ELSE IF isAxiosError(o)
    THEN ErrorJson(StatusOr500(o),
                   Or(MessageOf(o.data),
                      Or(Msg(AxiosErrorMessage(o, BackendTimeoutMs)),
                         <<"Error fetching data from backend service.">>)))
    ELSE ErrorJson(500, <<"An unexpected error occurred while fetching property data.">>)

\* mutant: the backend's message is relayed without a fallback
handlerResponse2_NoFallback(o) ==
    IF Resolved(o)
    THEN IF o.status = 200 /\ ~o.data.falsy
         THEN json(200, o.data)
         ELSE ErrorJson(500, <<"Invalid backend response.">>)
    ELSE IF isAxiosError(o)
    THEN ErrorJson(StatusOr500(o), MessageOf(o.data).v)
    ELSE ErrorJson(500, <<"Unexpected error occurred.">>)

\* mutant: any successful status with a body is relayed as 200
handlerResponse2_Any2xx(o) ==
    IF Resolved(o)
    THEN IF ~o.data.falsy
         THEN json(200, o.data)
         ELSE ErrorJson(500, <<"Invalid backend response.">>)
    ELSE IF isAxiosError(o)
    THEN ErrorJson(StatusOr500(o), Or(MessageOf(o.data), <<"Backend service error.">>))
    ELSE ErrorJson(500, <<"Unexpected error occurred.">>)

\* the try/catch around axios.get, second version of the route
handlerResponse2(o) ==
    IF Resolved(o)
    THEN IF o.status = 200 /\ ~o.data.falsy
         THEN json(200, o.data)
         ELSE ErrorJson(500, <<"Invalid backend response.">>)
    ELSE IF isAxiosError(o)
    THEN ErrorJson(StatusOr500(o), Or(MessageOf(o.data), <<"Backend service error.">>))
    ELSE ErrorJson(500, <<"Unexpected error occurred.">>)

\* mutant: a timed-out backend call is issued again
handlerEnd_Retry(version, r, o) ==
    IF o.k = "timeout" /\ r.backendCalls < 3
    THEN [r EXCEPT !.outcome = o, !.backendCalls = r.backendCalls + 1]
    ELSE [r EXCEPT !.stage = "responded", !.responses = r.responses + 1,
                   !.outcome = o,
                   !.resp = IF version = 1 THEN handlerResponse1(o) ELSE handlerResponse2(o)]

\* handler, from the settling of axios.get to its return: one response, and
\* no further backend call
handlerEnd(version, r, o) ==
    [r EXCEPT !.stage = "responded", !.responses = r.responses + 1,
              !.outcome = o,
              !.resp = IF version = 1 THEN handlerResponse1(o) ELSE handlerResponse2(o)]

\* ---------------------------------------------------- JavaScript values
\* A value of a PropertyData field or a helper's argument is a record
\* [t, num, items]: its type tag, the number it is, and what it holds. A
\* number is held in hundredths (Num(150) is 1.5), so that rounding to a
\* number of fraction digits is a real computation; NaN and the infinities are
\* numbers with their own tags. A string holds its parts, an array its items,
\* an object the one record of its fields.
JsUndefined == [t |-> "undefined", num |-> 0, items |-> << >>]
JsNull == [t |-> "null", num |-> 0, items |-> << >>]
Num(h) == [t |-> "number", num |-> h, items |-> << >>]
NaN == [t |-> "NaN", num |-> 0, items |-> << >>]
Infinity == [t |-> "Infinity", num |-> 0, items |-> << >>]
NegInfinity == [t |-> "-Infinity", num |-> 0, items |-> << >>]
Bool(b) == [t |-> "boolean", num |-> IF b THEN 1 ELSE 0, items |-> << >>]
Str(s) == [t |-> "string", num |-> 0, items |-> s]
Arr(a) == [t |-> "array", num |-> 0, items |-> a]
Obj(o) == [t |-> "object", num |-> 0, items |-> <<o>>]
\* the fields of an object
Fields(x) == x.items[1]

typeof(x) ==
    CASE x.t \in {"number", "NaN", "Infinity", "-Infinity"} -> "number"
      [] x.t = "string" -> "string"
      [] x.t = "boolean" -> "boolean"
      [] x.t = "undefined" -> "undefined"
      [] OTHER -> "object"

\* value === null || typeof value === 'undefined'
Nullish(x) == x.t \in {"null", "undefined"}

\* ToBoolean
JsTruthy(x) ==
    CASE x.t \in {"null", "undefined", "NaN"} -> FALSE
      [] x.t \in {"number", "boolean"} -> x.num # 0
      [] x.t = "string" -> x.items # << >>
      [] OTHER -> TRUE

\* ------------------------------------------------------------ lib/utils
DigitChars == <<"0", "1", "2", "3", "4", "5", "6", "7", "8", "9">>
Digit(d) == DigitChars[d + 1]

RECURSIVE DigitsOf(_)
\* the decimal digits of a natural number
DigitsOf(n) == IF n < 10 THEN <<Digit(n)>> ELSE DigitsOf(n \div 10) \o <<Digit(n % 10)>>

\* mutant: no grouping separators
Grouped_None(ds) == ds

RECURSIVE Grouped(_)
\* en-US grouping: a comma before every group of three digits from the right
Grouped(ds) ==
    IF Len(ds) <= 3 THEN ds
    ELSE Grouped(SubSeq(ds, 1, Len(ds) - 3)) \o <<",">> \o SubSeq(ds, Len(ds) - 2, Len(ds))

Abs(n) == IF n < 0 THEN -n ELSE n
Sign(n) == IF n < 0 THEN <<"-">> ELSE << >>

NA == <<"N/A">>

\* maximumFractionDigits: number = 0
DefaultFractionDigits == 0

\* Number.prototype.toLocaleString('en-US', {style: 'currency', currency:
\* 'USD', maximumFractionDigits}) of a number: maximumFractionDigits outside
\* 0..100 is a RangeError; for USD the minimum fraction
\* digits are min(2, maximumFractionDigits), rounding is half away from zero.
\* "throws" stands for the RangeError.
CurrencyString(x, maximumFractionDigits) ==
    IF maximumFractionDigits < 0 \/ maximumFractionDigits > 100 THEN <<"throws">>
    ELSE CASE x.t = "NaN" -> <<"$", "NaN">>
           [] x.t = "Infinity" -> <<"$", "INFINITY">>
           [] x.t = "-Infinity" -> <<"-", "$", "INFINITY">>
           [] OTHER ->
              LET a == Abs(x.num) IN
              Sign(x.num) \o <<"$">> \o
              (CASE maximumFractionDigits = 0 -> Grouped(DigitsOf((a + 50) \div 100))
                 [] maximumFractionDigits = 1 ->
                    LET tenths == (a + 5) \div 10 IN
                    Grouped(DigitsOf(tenths \div 10)) \o <<".", Digit(tenths % 10)>>
                 [] OTHER ->
                    Grouped(DigitsOf(a \div 100))
                        \o <<".", Digit((a % 100) \div 10), Digit(a % 10)>>)

\* formatCurrency(value, maximumFractionDigits)
formatCurrency(value, maximumFractionDigits) ==
    IF Nullish(value) THEN NA
    ELSE LET s == CurrencyString(value, maximumFractionDigits) IN
         IF s = <<"throws">> THEN NA ELSE s

\* Number.prototype.toLocaleString('en-US') of a number: up to three fraction
\* digits, none of them a trailing zero
NumberString(x) ==
    CASE x.t = "NaN" -> <<"NaN">>
      [] x.t = "Infinity" -> <<"INFINITY">>
      [] x.t = "-Infinity" -> <<"-", "INFINITY">>
      [] OTHER ->
         LET a == Abs(x.num)
             f == a % 100 IN
         Sign(x.num) \o Grouped(DigitsOf(a \div 100)) \o
         (IF f = 0 THEN << >>
          ELSE IF f % 10 = 0 THEN <<".", Digit(f \div 10)>>
          ELSE <<".", Digit(f \div 10), Digit(f % 10)>>)

\* formatNumber(value)
formatNumber(value) == IF Nullish(value) THEN NA ELSE NumberString(value)

\* ---- dates
IsDigit(c) == \E d \in 0..9 : Digit(d) = c
DigitValue(c) == CHOOSE d \in 0..9 : Digit(d) = c

RECURSIVE NumberOf(_)
\* the number a sequence of digits writes (0 for none)
NumberOf(ds) ==
    IF ds = << >> THEN 0
    ELSE 10 * NumberOf(SubSeq(ds, 1, Len(ds) - 1)) + DigitValue(ds[Len(ds)])

IsLeap(y) == (y % 4 = 0 /\ y % 100 # 0) \/ y % 400 = 0
DaysIn(y, m) ==
    IF m = 2 THEN (IF IsLeap(y) THEN 29 ELSE 28)
    ELSE IF m \in {4, 6, 9, 11} THEN 30 ELSE 31

InvalidDate == [valid |-> FALSE, y |-> 0, m |-> 0, d |-> 0]

\* new Date(dateString) for the date-only form "YYYY-MM-DD", which is midnight
\* UTC of that day; any other string of DateStrings is one no engine parses.
NewDate(s) ==
    IF /\ Len(s) = 10
       /\ s[5] = "-" /\ s[8] = "-"
       /\ \A i \in {1, 2, 3, 4, 6, 7, 9, 10} : IsDigit(s[i])
    THEN LET y == NumberOf(SubSeq(s, 1, 4))
             m == NumberOf(SubSeq(s, 6, 7))
             d == NumberOf(SubSeq(s, 9, 10)) IN
         IF m \in 1..12 /\ d >= 1 /\ d <= DaysIn(y, m)
         THEN [valid |-> TRUE, y |-> y, m |-> m, d |-> d]
         ELSE InvalidDate
    ELSE InvalidDate

\* the local calendar day of midnight UTC: the day before where local time is
\* behind UTC
LocalDay(date, zone) ==
    IF zone # "behindUTC" THEN date
    ELSE IF date.d > 1 THEN [date EXCEPT !.d = date.d - 1]
    ELSE IF date.m > 1
         THEN [date EXCEPT !.m = date.m - 1, !.d = DaysIn(date.y, date.m - 1)]
         ELSE [date EXCEPT !.y = date.y - 1, !.m = 12, !.d = 31]

MonthShort == <<"Jan", "Feb", "Mar", "Apr", "May", "Jun",
                "Jul", "Aug", "Sep", "Oct", "Nov", "Dec">>

\* toLocaleDateString('en-US', {year: 'numeric', month: 'short', day: 'numeric'})
DateString(date) ==
    <<MonthShort[date.m], " ">> \o DigitsOf(date.d) \o <<",", " ">> \o DigitsOf(date.y)

\* formatDate(dateString), run where local time is in `zone`
formatDate(dateString, zone) ==
    IF ~JsTruthy(dateString) THEN NA
    ELSE LET date == NewDate(dateString.items) IN
         IF ~date.valid THEN <<"Invalid Date">>
         ELSE DateString(LocalDay(date, zone))

\* ------------------------------------------------------ InsightsDashboard
\* The PropertyData fields that decide what the sections show: valueEstimate,
\* rentEstimate, predictedValueNextYear, predictionConfidence, marketTrend,
\* aiSummary, censusData, historicalValues, predictionPoints, description and
\* lotSize. A field that is absent holds JsUndefined.
\* what React renders for {cond && content}: the content when cond is truthy,
\* the number itself when cond is a falsy number, nothing otherwise
Absent == [k |-> "absent", text |-> << >>]
Stray(t) == [k |-> "stray", text |-> t]
Placeholder(m) == [k |-> "placeholder", text |-> <<m>>]
Content(c) == [k |-> "content", text |-> c]

\* String(x) of a number
NumberToString(x) ==
    CASE x.t = "NaN" -> <<"NaN">>
      [] x.t = "Infinity" -> <<"Infinity">>
      [] x.t = "-Infinity" -> <<"-", "Infinity">>
      [] OTHER ->
         LET a == Abs(x.num)
             f == a % 100 IN
         Sign(x.num) \o DigitsOf(a \div 100) \o
         (IF f = 0 THEN << >>
          ELSE IF f % 10 = 0 THEN <<".", Digit(f \div 10)>>
          ELSE <<".", Digit(f \div 10), Digit(f % 10)>>)

\* (x * 100).toFixed(0) of a number x of hundredths
PercentToFixed(x) ==
    CASE x.t = "NaN" -> <<"NaN">>
      [] x.t = "Infinity" -> <<"Infinity">>
      [] x.t = "-Infinity" -> <<"-", "Infinity">>
      [] OTHER -> Sign(x.num) \o DigitsOf(Abs(x.num))

And(cond, content) ==
    IF JsTruthy(cond) THEN content
    ELSE IF typeof(cond) = "number" THEN Stray(NumberToString(cond))
    ELSE Absent

\* a || b
JsOr(a, b) == IF JsTruthy(a) THEN a ELSE b

\* const displayValue = ...; if (displayValue === null || ... ) return null
CensusDataItem(label, value) ==
    LET displayValue == IF typeof(value) = "number" THEN Str(formatNumber(value)) ELSE value IN
    IF Nullish(displayValue) \/ displayValue = Str(NA)
    THEN [shown |-> FALSE, label |-> label, value |-> << >>]
    ELSE [shown |-> TRUE, label |-> label, value |-> displayValue.items]

Shown(item) == item.shown

hasHistoricalData(data) ==
    JsTruthy(Fields(data).historicalValues) /\ Len(Fields(data).historicalValues.items) > 0

\* mutant: an empty predictionPoints array counts as prediction points
hasPredictionPoints_Truthy(data) == JsTruthy(Fields(data).predictionPoints)

hasPredictionPoints(data) ==
    JsTruthy(Fields(data).predictionPoints) /\ Len(Fields(data).predictionPoints.items) > 0

CensusFields == {"totalPopulation", "medianAge", "malePopulation", "femalePopulation"}

\* mutant: a census value counts only when it is truthy
hasCensusData_Truthy(data) ==
    JsTruthy(Fields(data).censusData) /\ \E f \in CensusFields : JsTruthy(Fields(Fields(data).censusData)[f])

\* Fields(data).censusData && Object.values(Fields(data).censusData).some(v => v !== null && typeof v !== 'undefined')
hasCensusData(data) ==
    JsTruthy(Fields(data).censusData) /\ \E f \in CensusFields : ~Nullish(Fields(Fields(data).censusData)[f])

hasAiSummary(data) == JsTruthy(Fields(data).aiSummary) /\ Len(Fields(data).aiSummary.items) > 0

hasValuation(data) ==
    typeof(Fields(data).valueEstimate) = "number" \/ typeof(Fields(data).rentEstimate) = "number"

\* typeof Fields(data).predictedValueNextYear === 'number' || Fields(data).marketTrend
hasPrediction(data) ==
    IF typeof(Fields(data).predictedValueNextYear) = "number" THEN Bool(TRUE) ELSE Fields(data).marketTrend

hasDetails(data) == JsOr(Fields(data).description, Fields(data).lotSize)

ValuationSection(data) ==
    IF hasValuation(data)
    THEN Content([estimatedValue |-> formatCurrency(Fields(data).valueEstimate, DefaultFractionDigits),
                  estimatedRent |-> formatCurrency(Fields(data).rentEstimate, DefaultFractionDigits)])
    ELSE Absent

PredictionsSection(data) ==
    And(hasPrediction(data),
        Content([predictedValue |-> formatCurrency(Fields(data).predictedValueNextYear,
                                                   DefaultFractionDigits),
                 confidence |-> IF typeof(Fields(data).predictionConfidence) = "number"
                                THEN <<"Confidence: ">> \o PercentToFixed(Fields(data).predictionConfidence)
                                         \o <<"%">>
                                ELSE << >>,
                 marketTrend |-> IF JsTruthy(Fields(data).marketTrend) THEN Fields(data).marketTrend.items ELSE NA]))

AiBriefSection(data) ==
    IF hasAiSummary(data) THEN Content(Fields(data).aiSummary.items)
    ELSE Placeholder("AI summary could not be generated for this property.")

DemographicsSection(data) ==
    IF hasCensusData(data)
    THEN LET c == Fields(Fields(data).censusData) IN
         Content(SelectSeq(<<CensusDataItem("Total Population", c.totalPopulation),
                             CensusDataItem("Median Age", c.medianAge),
                             CensusDataItem("Male Population", c.malePopulation),
                             CensusDataItem("Female Population", c.femalePopulation)>>,
                           Shown))
    ELSE Placeholder("Demographic data is not available for this area.")

\* mutant: the chart drops its first point
ValueHistoryChart_DropFirst(data) ==
    [i \in 1..(Len(data) - 1) |-> <<data[i + 1].date, data[i + 1].value>>]

\* ValueHistoryChart: const chartData = data.map(item => [item.date, item.value])
ValueHistoryChart(data) == [i \in 1..Len(data) |-> <<data[i].date, data[i].value>>]

HistorySection(data) ==
    IF hasHistoricalData(data) THEN Content(ValueHistoryChart(Fields(data).historicalValues.items))
    ELSE Placeholder("Historical value data is not available for this property.")

\* array.slice(-1)
SliceLast(a) == IF a = << >> THEN << >> ELSE <<a[Len(a)]>>

\* mutant: the first historical point is taken, and drawn after the predictions
PredictionChart_FirstAfter(data, historicalData) ==
    LET combinedData ==
            IF JsTruthy(historicalData) /\ Len(historicalData.items) > 0
            THEN data \o <<historicalData.items[1]>>
            ELSE data IN
    [i \in 1..Len(combinedData) |-> <<combinedData[i].date, combinedData[i].value>>]

\* PredictionChart: combinedChartData
PredictionChart(data, historicalData) ==
    LET combinedData ==
            IF JsTruthy(historicalData) /\ Len(historicalData.items) > 0
            THEN <<historicalData.items[Len(historicalData.items)]>> \o data
            ELSE data IN
    [i \in 1..Len(combinedData) |-> <<combinedData[i].date, combinedData[i].value>>]

\* Fields(data).historicalValues?.slice(-1)
LastHistorical(data) ==
    IF Nullish(Fields(data).historicalValues) THEN JsUndefined
    ELSE Arr(SliceLast(Fields(data).historicalValues.items))

ForecastSection(data) ==
    IF hasPredictionPoints(data)
    THEN Content(PredictionChart(Fields(data).predictionPoints.items, LastHistorical(data)))
    ELSE Placeholder("Value forecast chart could not be generated.")

\* Value Forecast (Next {Fields(data).predictionPoints ? Fields(data).predictionPoints.length -1 : 0} Years)
ForecastYears(data) ==
    IF JsTruthy(Fields(data).predictionPoints) THEN Len(Fields(data).predictionPoints.items) - 1 ELSE 0

DetailsSection(data) ==
    And(hasDetails(data),
        Content([lotSize |-> And(Fields(data).lotSize,
                                 Content(<<"Lot Size: ">> \o formatNumber(Fields(data).lotSize)
                                             \o <<" sqft">>)),
                 description |-> And(Fields(data).description, Content(Fields(data).description.items))]))

\* InsightsDashboard, before its data view: the skeleton while loading, nothing
\* without data, the data view otherwise
DashboardBranch(hasData, loading) ==
    IF loading THEN "skeleton" ELSE IF ~hasData THEN "nothing" ELSE "data"

Sections == {"valuation", "predictions", "aiBrief", "demographics", "history",
             "forecast", "details"}

\* InsightsDashboard({data, isLoading}): what it returns
InsightsDashboard(data, loading) ==
    LET branch == DashboardBranch(JsTruthy(data), loading) IN
    IF branch # "data"
    THEN [branch |-> branch, forecastYears |-> 0, sections |-> [s \in Sections |-> Absent]]
    ELSE [branch |-> "data",
          forecastYears |-> ForecastYears(data),
          sections |-> [valuation |-> ValuationSection(data),
                        predictions |-> PredictionsSection(data),
                        aiBrief |-> AiBriefSection(data),
                        demographics |-> DemographicsSection(data),
                        history |-> HistorySection(data),
                        forecast |-> ForecastSection(data),
                        details |-> DetailsSection(data)]]

\* ---- the records the dashboard is given
\* most points an array of historicalValues or predictionPoints holds
MaxPoints == 2

IsoDate(year) == DigitsOf(year) \o <<"-", "0", "1", "-", "0", "1">>
HistoricalPoint(i) == [date |-> Str(IsoDate(2020 + i)), value |-> Num(30000000 + i * 2000000)]
ForecastPoint(i) == [date |-> Str(IsoDate(2025 + i)), value |-> Num(36000000 + i * 1500000)]

HistoricalArrays == {Arr([i \in 1..n |-> HistoricalPoint(i)]) : n \in 0..MaxPoints}
ForecastArrays == {Arr([i \in 1..n |-> ForecastPoint(i)]) : n \in 0..MaxPoints}

CensusObjects ==
    {Obj([totalPopulation |-> a, medianAge |-> b, malePopulation |-> c, femalePopulation |-> d]) :
        a \in {JsNull, JsUndefined, Num(0), Num(2500000)}, b \in {JsNull, Num(3450)},
        c \in {JsNull, Num(1200000)}, d \in {JsUndefined, Num(1300000)}}

\* a record with every field present
FullData ==
    Obj([valueEstimate |-> Num(35000000),
         rentEstimate |-> Num(210000),
         predictedValueNextYear |-> Num(36500000),
         predictionConfidence |-> Num(87),
         marketTrend |-> Str(<<"Increasing">>),
         aiSummary |-> Str(<<"A solid rental.">>),
         censusData |-> Obj([totalPopulation |-> Num(2500000), medianAge |-> Num(3450),
                             malePopulation |-> Num(1200000),
                             femalePopulation |-> Num(1300000)]),
         historicalValues |-> Arr([i \in 1..MaxPoints |-> HistoricalPoint(i)]),
         predictionPoints |-> Arr([i \in 1..MaxPoints |-> ForecastPoint(i)]),
         description |-> Str(<<"Corner lot.">>),
         lotSize |-> Num(500000)])

\* the fields each provider's section is fed by
FieldsOf(section) ==
    CASE section = "valuation" -> {"valueEstimate", "rentEstimate"}
      [] section = "predictions" -> {"predictedValueNextYear", "predictionConfidence",
                                     "marketTrend"}
      [] section = "aiBrief" -> {"aiSummary"}
      [] section = "demographics" -> {"censusData"}
      [] section = "history" -> {"historicalValues"}
      [] section = "forecast" -> {"predictionPoints"}
      [] OTHER -> {"description", "lotSize"}

DataFields == UNION {FieldsOf(s) : s \in Sections}

\* FullData without the fields of the sections in `missing`
Without(missing) ==
    Obj([f \in DataFields |->
            IF \E s \in missing : f \in FieldsOf(s) THEN JsUndefined ELSE Fields(FullData)[f]])

\* FullData without the fields of the sections in `missing`, and with field f
\* holding v
With(missing, f, v) == Obj([Fields(Without(missing)) EXCEPT ![f] = v])

\* the records that lack the fields of the sections in `missing` and have one
\* field holding another value a provider may send
PropertyDatas(missing) ==
    {With(missing, "valueEstimate", v) : v \in {Num(35000000), JsNull, NaN, Infinity, Num(0)}}
    \cup {With(missing, "rentEstimate", v) : v \in {JsUndefined, JsNull}}
    \cup {With(missing, "predictedValueNextYear", v) : v \in {JsUndefined, JsNull, NaN}}
    \cup {With(missing, "predictionConfidence", v) : v \in {JsUndefined, JsNull, NaN}}
    \cup {With(missing, "marketTrend", v) : v \in {JsUndefined, Str(<< >>)}}
    \cup {With(missing, "aiSummary", v) : v \in {JsNull, Str(<< >>)}}
    \cup {With(missing, "censusData", v) : v \in {JsNull} \cup CensusObjects}
    \cup {With(missing, "historicalValues", v) : v \in {JsNull} \cup HistoricalArrays}
    \cup {With(missing, "predictionPoints", v) : v \in {JsNull} \cup ForecastArrays}
    \cup {With(missing, "description", v) : v \in {JsUndefined, Str(<< >>)}}
    \cup {With(missing, "lotSize", v) : v \in {JsUndefined, Num(0), NaN}}

NoView == [done |-> FALSE, data |-> JsNull, isLoading |-> FALSE,
           view |-> InsightsDashboard(JsNull, FALSE)]

NoFormat == [fn |-> "none", value |-> JsUndefined, digits |-> 0, zone |-> "", done |-> FALSE,
             out |-> << >>]

\* ------------------------------------------------------- provider clients
\* fetchPropertyData (lib/api.ts) calls axios.get; the two get_property_info
\* services call requests.post and requests.get.
ProviderClients == {"fetchPropertyData", "zillow", "rentcast"}

ZillowKeys == {"zpid", "price", "address"}

\* what a provider answers with: a JSON object holding some of the keys, or
\* text that is not JSON
JsonBody(keys) == [json |-> TRUE, keys |-> keys]
TextBody == [json |-> FALSE, keys |-> {}]
ProviderBodies == {JsonBody(keys) : keys \in SUBSET ZillowKeys} \cup {TextBody}

ProviderStatuses == {200, 300, 404, 500}
ProviderOutcomes ==
    {[k |-> "response", status |-> s, body |-> b] : s \in ProviderStatuses, b \in ProviderBodies}
    \cup {[k |-> kind, status |-> 0, body |-> TextBody] : kind \in {"timeout", "network"}}

\* requests.Response.raise_for_status(): HTTPError for a 4xx or 5xx status
RaisesForStatus(status) == status >= 400 /\ status < 600

Returned(v) == [k |-> "returned", isNull |-> FALSE, value |-> v]
ReturnedNull == [k |-> "returned", isNull |-> TRUE, value |-> TextBody]
Raised == [k |-> "raised", isNull |-> FALSE, value |-> TextBody]
NoReturn == [k |-> "none", isNull |-> FALSE, value |-> TextBody]

\* try { const res = await axios.get(...); return res.data } catch { return null }
fetchPropertyData(o) == IF Resolved(o) THEN Returned(o.body) ELSE ReturnedNull

\* response.raise_for_status(); return response.json()
\* (requests raises for a failed connection, json() for a body that is not JSON)
rentcast_get_property_info(o) ==
    IF o.k # "response" \/ RaisesForStatus(o.status) \/ ~o.body.json THEN Raised
    ELSE Returned(o.body)

\* response.raise_for_status(); data = response.json();
\* return {"zpid": data.get("zpid"), "price": ..., "address": ...}
zillow_get_property_info(o) ==
    IF o.k # "response" \/ RaisesForStatus(o.status) \/ ~o.body.json THEN Raised
    ELSE Returned(JsonBody(o.body.keys \cap ZillowKeys))

\* the call of a provider client, from its HTTP request to its end
ProviderResult(client, o) ==
    CASE client = "fetchPropertyData" -> fetchPropertyData(o)
      [] client = "zillow" -> zillow_get_property_info(o)
      [] OTHER -> rentcast_get_property_info(o)

NoProviderCall ==
    [client |-> "none", stage |-> "idle", address |-> << >>, requests |-> 0,
     outcome |-> [k |-> "none", status |-> 0, body |-> TextBody], result |-> NoReturn]

\* ------------------------------------------------------------ the page
VARIABLES
    address,          \* SearchBar: the input's text
    submitted,        \* what the last SearchBar.handleSubmit did: "none", "dispatched", "ignored"
    propertyData,     \* HomePage state
    isLoading,
    error,
    isNotFoundError,
    calls,            \* the handleSearchSubmit invocations waiting for their response
    latest,           \* the most recent invocation of handleSearchSubmit (0: none yet)
    reqs,             \* the proxy's requests: 1..MaxCalls from the page, 0 from another client
    settled,          \* the exchange of the search that settled last, until the next dispatch
    version,          \* which of the two revisions of the route is deployed
    rendered,         \* the last render of InsightsDashboard: its props and what it returned
    formatted,        \* the last call of a lib/utils helper: its arguments and its result
    provider          \* the call of a provider client: its request and its result

page == <<address, submitted, propertyData, isLoading, error, isNotFoundError,
          calls, latest, reqs, settled, version>>
vars == <<page, rendered, formatted, provider>>
display == <<propertyData, error, isNotFoundError, isLoading>>

CallIds == 1..MaxCalls
\* the route's clients: the page's invocations, and 0 for any other client
Clients == 0..MaxCalls
NoSettled == [call |-> 0, outcome |-> NoResult, resp |-> NoResp, got |-> NoResult]

InitPage ==
    /\ address = << >>
    /\ submitted = "none"
    /\ propertyData = Null
    /\ isLoading = FALSE
    /\ error = Undefined
    /\ isNotFoundError = FALSE
    /\ calls = {}
    /\ latest = 0
    /\ reqs = [j \in Clients |-> NoRequest]
    /\ settled = NoSettled
    /\ version \in {1, 2}

Init ==
    /\ InitPage
    /\ rendered = NoView
    /\ formatted = NoFormat
    /\ provider = NoProviderCall

\* <Input onChange={(e) => setAddress(e.target.value)} disabled={isLoading} />
setAddress(s) ==
    /\ ~isLoading
    /\ s # address
    /\ address' = s
    /\ submitted' = "none"
    /\ UNCHANGED <<propertyData, isLoading, error, isNotFoundError, calls, latest,
                   reqs, settled, version, rendered, formatted, provider>>

FreeIds == {i \in CallIds : i \notin calls /\ reqs[i].stage = "none"}

\* mutant: a new search does not reset the 404 flag
handleSearchSubmit_KeepNotFound(a) ==
    /\ FreeIds # {}
    /\ LET i == CHOOSE x \in FreeIds : \A y \in FreeIds : x <= y IN
        /\ calls' = calls \cup {i}
        /\ latest' = i
        /\ reqs' = [reqs EXCEPT ![i] = [NoRequest EXCEPT !.stage = "sent",
                                                         !.query = [k |-> "string", v |-> a]]]
    /\ isLoading' = TRUE
    /\ error' = Undefined
    /\ propertyData' = Null
    /\ settled' = NoSettled
    /\ UNCHANGED <<isNotFoundError, version, rendered, formatted, provider>>

\* mutant: a new search does not clear the previous data
handleSearchSubmit_KeepData(a) ==
    /\ FreeIds # {}
    /\ LET i == CHOOSE x \in FreeIds : \A y \in FreeIds : x <= y IN
        /\ calls' = calls \cup {i}
        /\ latest' = i
        /\ reqs' = [reqs EXCEPT ![i] = [NoRequest EXCEPT !.stage = "sent",
                                                         !.query = [k |-> "string", v |-> a]]]
    /\ isLoading' = TRUE
    /\ error' = Undefined
    /\ isNotFoundError' = FALSE
    /\ settled' = NoSettled
    /\ UNCHANGED <<propertyData, version, rendered, formatted, provider>>

\* mutant: a new search does not clear the previous error
handleSearchSubmit_KeepError(a) ==
    /\ FreeIds # {}
    /\ LET i == CHOOSE x \in FreeIds : \A y \in FreeIds : x <= y IN
        /\ calls' = calls \cup {i}
        /\ latest' = i
        /\ reqs' = [reqs EXCEPT ![i] = [NoRequest EXCEPT !.stage = "sent",
                                                         !.query = [k |-> "string", v |-> a]]]
    /\ isLoading' = TRUE
    /\ propertyData' = Null
    /\ settled' = NoSettled
    /\ UNCHANGED <<error, isNotFoundError, version, rendered, formatted, provider>>

\* handleSearchSubmit, from its call to the await of axios.get
handleSearchSubmit(a) ==
    /\ FreeIds # {}
    /\ LET i == CHOOSE x \in FreeIds : \A y \in FreeIds : x <= y IN
        /\ calls' = calls \cup {i}
        /\ latest' = i
        /\ reqs' = [reqs EXCEPT ![i] = [NoRequest EXCEPT !.stage = "sent",
                                                         !.query = [k |-> "string", v |-> a]]]
    /\ isLoading' = TRUE
    /\ error' = Undefined
    /\ isNotFoundError' = FALSE
    /\ propertyData' = Null
    /\ settled' = NoSettled
    /\ UNCHANGED <<version, rendered, formatted, provider>>

\* mutant: the search bar submits while a search is loading
SubmitAllowed_WhileLoading(trimmedAddress, loading) == trimmedAddress # << >>

\* if (trimmedAddress && !isLoading)
SubmitAllowed(trimmedAddress, loading) == trimmedAddress # << >> /\ ~loading

\* SearchBar.handleSubmit
handleSubmit ==
    LET trimmedAddress == trim(address) IN
    IF SubmitAllowed(trimmedAddress, isLoading)
    THEN /\ handleSearchSubmit(trimmedAddress)
         /\ submitted' = "dispatched"
         /\ UNCHANGED address
    ELSE /\ submitted' = "ignored"
         /\ UNCHANGED <<address, propertyData, isLoading, error, isNotFoundError,
                        calls, latest, reqs, settled, version, rendered, formatted, provider>>

\* mutant: the 404 branch is never taken
catch_No404(got) ==
    IF isAxiosError(got)
    THEN [message |-> Or(MessageOf(got.data), AxiosErrorMessage(got, ClientTimeoutMs)),
          notFound |-> FALSE]
    ELSE [message |-> <<"Received empty data from server.">>, notFound |-> FALSE]

\* mutant: the message of a non-Axios Error is not taken over
catch_DefaultMessage(got) ==
    IF isAxiosError(got)
    THEN IF got.k = "response" /\ got.status = 404
         THEN [message |-> Or(MessageOf(got.data),
                              <<"No data found for the specified address. Please check the address and try again.">>),
               notFound |-> TRUE]
         ELSE [message |-> Or(MessageOf(got.data), AxiosErrorMessage(got, ClientTimeoutMs)),
               notFound |-> FALSE]
    ELSE [message |-> <<"An unexpected error occurred. Please try again later.">>,
          notFound |-> FALSE]

\* the catch block of handleSearchSubmit: the message and the 404 flag it sets
catch(got) ==
    IF isAxiosError(got)
    THEN IF got.k = "response" /\ got.status = 404
         THEN [message |-> Or(MessageOf(got.data),
                              <<"No data found for the specified address. Please check the address and try again.">>),
               notFound |-> TRUE]
         ELSE [message |-> Or(MessageOf(got.data), AxiosErrorMessage(got, ClientTimeoutMs)),
               notFound |-> FALSE]
    ELSE [message |-> <<"Received empty data from server.">>, notFound |-> FALSE]

\* mutant: setIsLoading(false) at the end of the try block, not in a finally
resume_NoFinally(i, got) ==
    /\ IF Resolved(got) /\ ~got.data.falsy
       THEN /\ propertyData' = got.data
            /\ isLoading' = FALSE
            /\ UNCHANGED <<error, isNotFoundError>>
       ELSE /\ isNotFoundError' = catch(got).notFound
            /\ error' = Msg(catch(got).message)
            /\ propertyData' = Null
            /\ UNCHANGED isLoading
    /\ calls' = calls \ {i}
    /\ reqs' = [reqs EXCEPT ![i] = NoRequest]
    /\ settled' = [call |-> i, outcome |-> reqs[i].outcome, resp |-> reqs[i].resp, got |-> got]
    /\ submitted' = "none"
    /\ UNCHANGED <<address, latest, version, rendered, formatted, provider>>

\* handleSearchSubmit, from the settling of axios.get (with `got`) to its end
resume(i, got) ==
    /\ IF Resolved(got) /\ ~got.data.falsy
       THEN /\ propertyData' = got.data
            /\ UNCHANGED <<error, isNotFoundError>>
       ELSE /\ isNotFoundError' = catch(got).notFound
            /\ error' = Msg(catch(got).message)
            /\ propertyData' = Null
    /\ isLoading' = FALSE
    /\ calls' = calls \ {i}
    /\ reqs' = [reqs EXCEPT ![i] = NoRequest]
    /\ settled' = [call |-> i, outcome |-> reqs[i].outcome, resp |-> reqs[i].resp, got |-> got]
    /\ submitted' = "none"
    /\ UNCHANGED <<address, latest, version, rendered, formatted, provider>>

\* the page's request reaches the route: handler runs up to its await
ProxyReceive(i) ==
    /\ i \in calls
    /\ reqs[i].stage = "sent"
    /\ reqs' = [reqs EXCEPT ![i] = handlerBegin(version, "GET", reqs[i].query)]
    /\ UNCHANGED <<address, submitted, propertyData, isLoading, error, isNotFoundError,
                   calls, latest, settled, version, rendered, formatted, provider>>

\* another client of the route sends any method and any query
DirectRequest(m, q) ==
    /\ reqs[0].stage = "none"
    /\ reqs' = [reqs EXCEPT ![0] = handlerBegin(version, m, q)]
    /\ UNCHANGED <<address, submitted, propertyData, isLoading, error, isNotFoundError,
                   calls, latest, settled, version, rendered, formatted, provider>>

\* that client has its response
DirectClose ==
    /\ reqs[0].stage = "responded"
    /\ reqs' = [reqs EXCEPT ![0] = NoRequest]
    /\ UNCHANGED <<address, submitted, propertyData, isLoading, error, isNotFoundError,
                   calls, latest, settled, version, rendered, formatted, provider>>

\* the backend call of request j settles with outcome o: handler runs to its return
BackendSettles(j, o) ==
    /\ reqs[j].stage = "awaiting"
    /\ reqs' = [reqs EXCEPT ![j] = handlerEnd(version, reqs[j], o)]
    /\ UNCHANGED <<address, submitted, propertyData, isLoading, error, isNotFoundError,
                   calls, latest, settled, version, rendered, formatted, provider>>

\* the route's response reaches the page
Receive(i) ==
    /\ i \in calls
    /\ reqs[i].stage = "responded"
    /\ resume(i, Response(reqs[i].resp.status, reqs[i].resp.body))

\* the page's request fails without a response (network failure, or the 30 s
\* timeout), wherever the request is by then. The route may still be handling
\* it; nobody reads that response, and the request leaves the model here.
ClientFails(i, kind) ==
    /\ i \in calls
    /\ reqs[i].stage # "none"
    /\ resume(i, NoResponse(kind))

\* handleSearchSubmit called by any caller, whatever the page's state
Invoke(a) ==
    /\ handleSearchSubmit(a)
    /\ UNCHANGED <<address, submitted>>

\* The system as its user drives it: SearchBar, HomePage, the route, the backend.
Next ==
    \/ \E s \in Strings : setAddress(s)
    \/ handleSubmit
    \/ \E i \in CallIds : ProxyReceive(i)
    \/ \E i \in CallIds, o \in BackendOutcomes : BackendSettles(i, o)
    \/ \E i \in CallIds : Receive(i)
    \/ \E i \in CallIds, kind \in {"timeout", "network"} : ClientFails(i, kind)

Spec == Init /\ [][Next]_vars

\* The awaited axios.get of invocation i settles: with the route's response,
\* or with an error. It is given timeout: 30000, so it cannot stay pending.
AwaitSettles(i) == Receive(i) \/ \E kind \in {"timeout", "network"} : ClientFails(i, kind)

\* The same system, with every awaited request bound to settle.
SpecLive == Init /\ [][Next]_vars /\ \A i \in CallIds : WF_vars(AwaitSettles(i))

\* what a server at /api/property can answer, or fail to
ServerOutcomes == BackendOutcomes \ {NoResponse("thrown")}

\* the page's request is answered by whatever serves /api/property
ServerAnswers(i, got) ==
    /\ i \in calls
    /\ reqs[i].stage = "sent"
    /\ resume(i, got)

\* The page with the route behind /api/property, or with any other server there.
NextAnyServer ==
    \/ Next
    \/ \E i \in CallIds, got \in ServerOutcomes : ServerAnswers(i, got)

SpecAnyServer == Init /\ [][NextAnyServer]_vars

\* The route alone, with a client that sends any method and any query.
NextRoute ==
    \/ \E m \in Methods, q \in Queries : DirectRequest(m, q)
    \/ \E o \in BackendOutcomes : BackendSettles(0, o)
    \/ DirectClose

SpecRoute == Init /\ [][NextRoute]_vars

\* The route with its backend call bound to settle: axios.get is given
\* timeout: 15000, so the await ends with a response or with an error.
BackendCallSettles == \E o \in BackendOutcomes : BackendSettles(0, o)
SpecRouteLive == Init /\ [][NextRoute]_vars /\ WF_vars(BackendCallSettles)

\* HomePage with handleSearchSubmit called without SearchBar's guard.
OverlapAddresses == {s \in Strings : s # << >> /\ trim(s) = s}

NextOverlap ==
    \/ \E a \in OverlapAddresses : Invoke(a)
    \/ \E i \in CallIds : ProxyReceive(i)
    \/ \E i \in CallIds, o \in BackendOutcomes : BackendSettles(i, o)
    \/ \E i \in CallIds : Receive(i)
    \/ \E i \in CallIds, kind \in {"timeout", "network"} : ClientFails(i, kind)

SpecOverlap == Init /\ [][NextOverlap]_vars

\* ------------------------------------------- the helpers of lib/utils, called
\* the amounts, in hundredths, the helpers are given
Amounts == {0, 5, 50, 150, 99950, 100000, 123456, 123456700, 99999950, 30000000,
            -150, -123456700}
FormatValues == {JsUndefined, JsNull, NaN, Infinity, NegInfinity} \cup {Num(h) : h \in Amounts}
FractionDigits == {-1, 0, 1, 2, 3, 101}
DateStrings ==
    {JsUndefined, JsNull, Str(<< >>), Str(<<" ">>), Str(<<"a", "b", "c">>),
     Str(<<"2", "0", "2", "3", "-", "0", "1", "-", "1", "5">>),
     Str(<<"2", "0", "2", "3", "-", "0", "1", "-", "0", "1">>),
     Str(<<"2", "0", "2", "4", "-", "0", "3", "-", "0", "1">>),
     Str(<<"2", "0", "2", "3", "-", "1", "3", "-", "0", "1">>),
     Str(<<"2", "0", "2", "3", "/", "0", "1", "/", "1", "5", "x">>)}
Zones == {"behindUTC", "UTC", "aheadOfUTC"}

FormatCalls ==
    {[fn |-> "formatCurrency", value |-> value, digits |-> d, zone |-> "", done |-> FALSE,
      out |-> << >>] : value \in FormatValues, d \in FractionDigits}
    \cup {[fn |-> "formatNumber", value |-> value, digits |-> 0, zone |-> "", done |-> FALSE,
           out |-> << >>] : value \in FormatValues}
    \cup {[fn |-> "formatDate", value |-> s, digits |-> 0, zone |-> zone, done |-> FALSE,
           out |-> << >>] : s \in DateStrings, zone \in Zones}

InitFormat ==
    /\ InitPage
    /\ rendered = NoView
    /\ formatted \in FormatCalls
    /\ provider = NoProviderCall

Returns(out) ==
    /\ ~formatted.done
    /\ formatted' = [formatted EXCEPT !.done = TRUE, !.out = out]
    /\ UNCHANGED <<page, rendered, provider>>

CallFormatCurrency ==
    /\ formatted.fn = "formatCurrency"
    /\ Returns(formatCurrency(formatted.value, formatted.digits))

CallFormatNumber ==
    /\ formatted.fn = "formatNumber"
    /\ Returns(formatNumber(formatted.value))

CallFormatDate ==
    /\ formatted.fn = "formatDate"
    /\ Returns(formatDate(formatted.value, formatted.zone))

NextFormat ==
    \/ CallFormatCurrency
    \/ CallFormatNumber
    \/ CallFormatDate

SpecFormat == InitFormat /\ [][NextFormat]_vars

\* ------------------------------------------ InsightsDashboard, rendered
DashboardProps(missing) ==
    {[done |-> FALSE, data |-> data, isLoading |-> FALSE, view |-> NoView.view] :
        data \in PropertyDatas(missing) \cup {JsNull}}
    \cup {[done |-> FALSE, data |-> data, isLoading |-> TRUE, view |-> NoView.view] :
              data \in {JsNull, FullData}}

InitDashboard ==
    /\ InitPage
    /\ \E missing \in SUBSET Sections : rendered \in DashboardProps(missing)
    /\ formatted = NoFormat
    /\ provider = NoProviderCall

Render ==
    /\ ~rendered.done
    /\ rendered' = [rendered EXCEPT !.done = TRUE,
                                    !.view = InsightsDashboard(rendered.data, rendered.isLoading)]
    /\ UNCHANGED <<page, formatted, provider>>

NextDashboard == Render

SpecDashboard == InitDashboard /\ [][NextDashboard]_vars

\* ------------------------------------------ the provider clients, called
\* a provider client is called and sends its HTTP request
ProviderCall(client, a) ==
    /\ provider.stage # "awaiting"
    /\ provider' = [NoProviderCall EXCEPT !.client = client, !.stage = "awaiting",
                                          !.address = a, !.requests = 1]
    /\ UNCHANGED <<page, rendered, formatted>>

\* the request settles with outcome o and the client runs to its end
ProviderSettles(o) ==
    /\ provider.stage = "awaiting"
    /\ provider' = [provider EXCEPT !.stage = "done", !.outcome = o,
                                    !.result = ProviderResult(provider.client, o)]
    /\ UNCHANGED <<page, rendered, formatted>>

NextProviders ==
    \/ \E client \in ProviderClients, a \in Strings : ProviderCall(client, a)
    \/ \E o \in ProviderOutcomes : ProviderSettles(o)

SpecProviders == Init /\ [][NextProviders]_vars

\* ------------------------------------------------------------ rendering
\* {error && !isLoading && (<Alert variant={isNotFoundError ? "default" : "destructive"}>
AlertShown == Truthy(error) /\ ~isLoading
AlertVariant == IF isNotFoundError THEN "default" ELSE "destructive"

\* <InsightsDashboard data={propertyData} isLoading={isLoading} />
PageDashboard == DashboardBranch(~propertyData.falsy, isLoading)

\* the copy of the page in part_001:
\* {propertyData && !isLoading && <InsightsDashboard data={propertyData} isLoading={isLoading} />}
PageDashboardGuarded ==
    IF ~propertyData.falsy /\ ~isLoading
    THEN DashboardBranch(~propertyData.falsy, isLoading)
    ELSE "nothing"

\* -------------------------------------------------------------- claims
Active == {reqs[j] : j \in {j \in DOMAIN reqs : reqs[j].stage # "none"}}
Responded == {r \in Active : r.stage = "responded"}
ResponseMessage(r) == MessageOf(r.resp.body)

\* the address query parameter is missing, empty or whitespace-only
Blank(q) ==
    \/ q.k = "undefined"
    \/ q.k = "string" /\ \A n \in 1..Len(q.v) : q.v[n] = " "

\* the backend answered with an error status
ErrorStatus(o) == o.k = "response" /\ ~Is2xx(o.status)
\* the backend call ended without a response: timeout or network failure
NoBackendResponse(o) == o.k \in {"timeout", "network"}

\* C1, as stated: every request whose address is missing, empty or
\* whitespace-only is answered 400 with a message, and the backend is not called.
C1_BlankAddressIs400 ==
    \A r \in Responded :
        Blank(r.query) =>
            r.resp.status = 400 /\ Truthy(ResponseMessage(r)) /\ r.backendCalls = 0

\* C1, amended: every GET request whose address is missing, empty or
\* whitespace-only is answered at once with 400 and a non-empty message, and for
\* no request with such an address, whatever its method, is the backend called.
C1_GetBlankAddressIs400 ==
    \A r \in Active :
        Blank(r.query) =>
            /\ r.stage = "responded"
            /\ r.backendCalls = 0
            /\ r.outcome = NoResult
            /\ r.method = "GET" => r.resp.status = 400 /\ Truthy(ResponseMessage(r))

C1_Witness ==
    \E r \in Responded :
        /\ r.method = "GET"
        /\ r.query = [k |-> "string", v |-> <<" ", " ">>]
        /\ r.resp.status = 400

\* C2: every request whose method is not GET is answered at once with 405, a
\* non-empty message and the header Allow: GET, and the backend is not called.
C2_NonGetIs405 ==
    \A r \in Active :
        r.method # "GET" =>
            /\ r.stage = "responded"
            /\ r.resp.status = 405
            /\ Truthy(ResponseMessage(r))
            /\ r.resp.allow = {"GET"}
            /\ r.backendCalls = 0
            /\ r.outcome = NoResult

C2_Witness ==
    \E r \in Responded :
        /\ r.method = "POST"
        /\ r.query = [k |-> "string", v |-> <<"a">>]
        /\ r.resp.status = 405

\* C3: the route answers a backend 404 with 404 and a non-empty message, and when
\* that response settles the page's search the page has a non-empty error and
\* isNotFoundError = TRUE, so the alert is shown in the "default" variant.
C3_NotFoundIsInformational ==
    /\ \A r \in Responded :
           (r.outcome.k = "response" /\ r.outcome.status = 404) =>
               r.resp.status = 404 /\ Truthy(ResponseMessage(r))
    /\ (/\ settled.call # 0
        /\ settled.outcome.k = "response"
        /\ settled.outcome.status = 404
        /\ settled.got.k = "response") =>
           /\ settled.resp.status = 404
           /\ settled.got.status = 404
           /\ Truthy(error)
           /\ isNotFoundError
           /\ ~isLoading
           /\ propertyData = Null
           /\ AlertShown
           /\ AlertVariant = "default"

C3_Witness ==
    /\ settled.call # 0
    /\ settled.outcome = Response(404, MessageBody(Undefined))
    /\ settled.got.k = "response"
    /\ isNotFoundError
    /\ AlertShown

\* C4: the route answers a backend call that timed out or failed at the network
\* level with a 5xx status and a non-empty message, and once that search has
\* settled the page has a non-empty error and isNotFoundError = FALSE, so the
\* alert is shown in the "destructive" variant.
C4_BackendFailureIsDestructive ==
    /\ \A r \in Responded :
           NoBackendResponse(r.outcome) =>
               r.resp.status \in 500..599 /\ Truthy(ResponseMessage(r))
    /\ (settled.call # 0 /\ NoBackendResponse(settled.outcome)) =>
           /\ settled.resp.status \in 500..599
           /\ Truthy(error)
           /\ ~isNotFoundError
           /\ ~isLoading
           /\ propertyData = Null
           /\ AlertShown
           /\ AlertVariant = "destructive"

C4_Witness ==
    /\ settled.call # 0
    /\ settled.outcome.k = "timeout"
    /\ settled.got.k = "response"
    /\ AlertShown
    /\ AlertVariant = "destructive"

\* C5, as stated: whenever the backend call succeeds, the route's response
\* has the backend's status and the backend's body.
C5_SuccessRelayedVerbatim ==
    \A r \in Responded :
        Resolved(r.outcome) =>
            r.resp.status = r.outcome.status /\ r.resp.body = r.outcome.data

\* C5, amended: whenever the backend call succeeds with status 200 and a
\* non-empty body, the route's response has status 200 and that body; a backend
\* success with another 2xx status or an empty body is answered with 500 and a
\* non-empty message.
C5_ValidSuccessRelayed ==
    \A r \in Responded :
        Resolved(r.outcome) =>
            IF r.outcome.status = 200 /\ ~r.outcome.data.falsy
            THEN r.resp.status = 200 /\ r.resp.body = r.outcome.data
            ELSE r.resp.status = 500 /\ Truthy(ResponseMessage(r))

C5_Witness ==
    \E r \in Responded :
        /\ r.outcome = Response(200, DataBody("p1"))
        /\ r.resp = json(200, DataBody("p1"))

\* C6: when the backend answers with an error status, the route's response has
\* that status and, if the backend's body has a (non-empty) message, that
\* message; the route falls back to 500 only when the backend gave no status,
\* and to a message of its own only when the backend gave no message.
C6_BackendErrorRelayed ==
    \A r \in Responded :
        (r.outcome.k # "none" /\ ~Resolved(r.outcome)) =>
            /\ ErrorStatus(r.outcome) => r.resp.status = r.outcome.status
            /\ Truthy(MessageOf(r.outcome.data)) =>
                   ResponseMessage(r) = MessageOf(r.outcome.data)
            /\ r.resp.status # r.outcome.status =>
                   r.outcome.k # "response" /\ r.resp.status = 500
            /\ ResponseMessage(r) # MessageOf(r.outcome.data) =>
                   ~Truthy(MessageOf(r.outcome.data)) /\ Truthy(ResponseMessage(r))

C6_Witness ==
    \E r \in Responded :
        /\ r.outcome = Response(503, MessageBody(Msg(<<"Property not found">>)))
        /\ r.resp.status = 503
        /\ ResponseMessage(r) = Msg(<<"Property not found">>)

\* C7, as stated: every response has a status in {200, 400, 404, 405, 500}, and
\* every response with another status than 200 has a non-empty message.
C7_StatusInFixedSet ==
    \A r \in Responded :
        /\ r.resp.status \in {200, 400, 404, 405, 500}
        /\ r.resp.status # 200 => Truthy(ResponseMessage(r))

\* C7, amended: every response has status 200, 400, 405 or 500, or the error
\* status the backend answered with (404 among them), and every response with
\* another status than 200 has a non-empty message.
C7_StatusFixedOrRelayed ==
    \A r \in Responded :
        /\ \/ r.resp.status \in {200, 400, 405, 500}
           \/ ErrorStatus(r.outcome) /\ r.resp.status = r.outcome.status
        /\ r.resp.status # 200 => Truthy(ResponseMessage(r))

C7_Witness ==
    \E r \in Responded :
        /\ r.outcome = Response(503, MessageBody(Msg(<< >>)))
        /\ r.resp.status = 503
        /\ Truthy(ResponseMessage(r))

\* C8: the route issues at most one backend call per request, and once that
\* call has settled, however it settled, the route has responded: no retry.
C8_AtMostOneBackendCall ==
    \A r \in Active :
        /\ r.backendCalls <= 1
        /\ r.stage = "awaiting" => r.backendCalls = 1 /\ r.outcome = NoResult
        /\ r.outcome # NoResult => r.stage = "responded"

C8_Witness ==
    \E r \in Responded :
        r.outcome.k = "timeout" /\ r.backendCalls = 1 /\ r.resp.status = 500

\* C9: at most one search is in flight: from the dispatch of a search to its
\* settling isLoading is TRUE and SearchBar.handleSubmit does not dispatch, so
\* at most one invocation of handleSearchSubmit waits for a response.
C9_OneSearchInFlight ==
    /\ Cardinality(calls) <= 1
    /\ isLoading <=> calls # {}

C9_Witness ==
    /\ submitted = "ignored"
    /\ isLoading
    /\ trim(address) # << >>
    /\ Cardinality(calls) = 1

\* C10: the response of an invocation of handleSearchSubmit that is no longer
\* the latest one never changes the displayed state.
C10_StaleResponseIgnored ==
    [][\A i \in calls : (i # latest /\ i \notin calls') => display' = display]_vars

\* the search ended with a response that handleSearchSubmit takes as data
Succeeded(got) == Resolved(got) /\ ~got.data.falsy

\* C11: the page renders its one alert or the data dashboard, never both, and
\* it renders the data dashboard only when the search that settled last
\* succeeded, with that search's data.
C11_AlertOrDashboard ==
    /\ ~(AlertShown /\ PageDashboard = "data")
    /\ PageDashboard = "data" =>
           /\ settled.call # 0
           /\ Succeeded(settled.got)
           /\ propertyData = settled.got.data
           /\ error = Undefined
    /\ AlertShown => propertyData = Null /\ settled.call # 0 /\ ~Succeeded(settled.got)

C11_Witness ==
    /\ PageDashboard = "data"
    /\ ~AlertShown
    /\ settled.got = Response(200, DataBody("p1"))

\* -------------------------------------------- claims about the dashboard
\* the data view of a render that has returned
DataView == rendered.done /\ rendered.view.branch = "data"
Given(f) == Fields(rendered.data)[f]
Section(s) == rendered.view.sections[s]

CensusLabels == <<"Total Population", "Median Age", "Male Population", "Female Population">>
CensusOrder == <<"totalPopulation", "medianAge", "malePopulation", "femalePopulation">>
\* the census fields of the given record that hold a value
CensusGiven ==
    IF Given("censusData").t # "object" THEN {}
    ELSE {i \in 1..4 : ~Nullish(Fields(Given("censusData"))[CensusOrder[i]])}

\* C12: when censusData is absent, null, or holds only null and undefined
\* fields, the Demographics section shows its placeholder and no item; when it
\* holds a value, the section shows an item for each field that holds one, in
\* the order of the fields, and for no other field.
C12_DemographicsPlaceholder ==
    DataView =>
        IF CensusGiven = {}
        THEN /\ Section("demographics").k = "placeholder"
             /\ Section("demographics").text
                    = <<"Demographic data is not available for this area.">>
        ELSE /\ Section("demographics").k = "content"
             /\ LET items == Section("demographics").text IN
                /\ Len(items) = Cardinality(CensusGiven)
                /\ {items[i].label : i \in 1..Len(items)}
                       = {CensusLabels[i] : i \in CensusGiven}
                /\ \A i, j \in 1..Len(items) :
                       i < j => \E a, b \in CensusGiven :
                                   /\ a < b
                                   /\ items[i].label = CensusLabels[a]
                                   /\ items[j].label = CensusLabels[b]
                /\ \A i \in 1..Len(items) : items[i].value # << >> /\ items[i].value # NA

C12_Witness ==
    /\ DataView
    /\ Given("censusData").t = "object"
    /\ Fields(Given("censusData")).totalPopulation = Num(0)
    /\ Nullish(Fields(Given("censusData")).medianAge)
    /\ Section("demographics").k = "content"
    /\ Len(Section("demographics").text) < 4

\* predictionPoints is absent, null or an empty array
NoPredictionPoints ==
    \/ Nullish(Given("predictionPoints"))
    \/ Given("predictionPoints").t = "array" /\ Given("predictionPoints").items = << >>

\* C13: for a record with n >= 1 historical values and with predictionPoints
\* absent, null or empty, the series of the historical chart has exactly n
\* points, the i-th being [date, value] of the i-th historical value, and the
\* forecast section shows "Value forecast chart could not be generated."
C13_HistoryWithoutForecast ==
    (/\ DataView
     /\ Given("historicalValues").t = "array"
     /\ Len(Given("historicalValues").items) >= 1
     /\ NoPredictionPoints)
    => LET points == Given("historicalValues").items
           series == Section("history").text IN
       /\ Section("history").k = "content"
       /\ Len(series) = Len(points)
       /\ \A i \in 1..Len(points) :
              /\ series[i][1] = points[i].date
              /\ series[i][2] = points[i].value
       /\ Section("forecast").k = "placeholder"
       /\ Section("forecast").text = <<"Value forecast chart could not be generated.">>

C13_Witness ==
    /\ DataView
    /\ Given("historicalValues").t = "array"
    /\ Len(Given("historicalValues").items) = MaxPoints
    /\ Given("predictionPoints") = Arr(<< >>)
    /\ Len(Section("history").text) = MaxPoints
    /\ Section("forecast").k = "placeholder"

\* the data a section shows is missing from the given record
Missing(s) ==
    CASE s = "valuation" ->
             typeof(Given("valueEstimate")) # "number" /\ typeof(Given("rentEstimate")) # "number"
      [] s = "predictions" ->
             /\ typeof(Given("predictedValueNextYear")) # "number"
             /\ ~JsTruthy(Given("marketTrend"))
      [] s = "aiBrief" -> ~JsTruthy(Given("aiSummary"))
      [] s = "demographics" -> CensusGiven = {}
      [] s = "history" ->
             Nullish(Given("historicalValues")) \/ Given("historicalValues").items = << >>
      [] s = "forecast" -> NoPredictionPoints
      [] OTHER -> ~JsTruthy(Given("description")) /\ Nullish(Given("lotSize"))

EmptyState(s) ==
    CASE s = "aiBrief" -> <<"AI summary could not be generated for this property.">>
      [] s = "demographics" -> <<"Demographic data is not available for this area.">>
      [] s = "history" -> <<"Historical value data is not available for this property.">>
      [] OTHER -> <<"Value forecast chart could not be generated.">>

\* a render of a record that is not null, past the loading state
RenderedRecord == rendered.done /\ ~rendered.isLoading /\ rendered.data # JsNull

\* C14 as stated: every record is rendered, and each of its seven sections
\* whose data is missing shows an empty-state message.
C14_EverySectionHasEmptyState ==
    RenderedRecord =>
        /\ rendered.view.branch = "data"
        /\ \A s \in Sections : Missing(s) => Section(s).k = "placeholder"

\* C14, amended: every record is rendered; the AI brief, demographics,
\* historical chart and forecast chart sections are always there, with their
\* empty-state message when their data is missing; the valuation, predictions
\* and details sections are left out when their data is missing.
C14_EmptyStateOrLeftOut ==
    RenderedRecord =>
        /\ rendered.view.branch = "data"
        /\ \A s \in {"aiBrief", "demographics", "history", "forecast"} :
               IF Missing(s)
               THEN Section(s).k = "placeholder" /\ Section(s).text = EmptyState(s)
               ELSE Section(s).k = "content"
        /\ \A s \in {"valuation", "predictions", "details"} :
               Missing(s) <=> Section(s).k = "absent"

C14_Witness ==
    /\ RenderedRecord
    /\ \A s \in Sections \ {"history"} : Missing(s)
    /\ ~Missing("history")
    /\ Section("valuation").k = "absent"
    /\ Section("aiBrief").k = "placeholder"
    /\ Section("history").k = "content"

\* ------------------------------------------ claims about lib/utils
Called(fn) == formatted.done /\ formatted.fn = fn

\* the characters of out that are digits, as a number
RECURSIVE ValueOfDigits(_)
ValueOfDigits(out) ==
    IF out = << >> THEN 0
    ELSE LET last == out[Len(out)]
             rest == ValueOfDigits(SubSeq(out, 1, Len(out) - 1)) IN
         IF IsDigit(last) THEN 10 * rest + DigitValue(last) ELSE rest

\* out is "$" and then digits in groups: one to three digits, then commas each
\* followed by exactly three digits
IsGroupedDollars(out) ==
    /\ Len(out) >= 2
    /\ out[1] = "$"
    /\ \A i \in 2..Len(out) : IsDigit(out[i]) \/ out[i] = ","
    /\ out[2] # "," 
    /\ \A i \in 2..Len(out) : out[i] = "," <=> (i > 2 /\ (Len(out) - i) % 4 = 3)
    /\ (Len(out) > 2 => out[2] # "0")

\* C15: formatCurrency and formatNumber return 'N/A' for null and for
\* undefined, whatever maximumFractionDigits is; for a dollar amount that is a
\* whole non-negative number, formatCurrency with no fraction digits returns
\* "$" and the amount's digits in comma-separated groups of three, and
\* formatCurrency(1234567, 0) is "$1,234,567".
C15_FormatNullAndGrouping ==
    /\ (Called("formatCurrency") \/ Called("formatNumber")) /\ Nullish(formatted.value)
           => formatted.out = <<"N/A">>
    /\ (/\ Called("formatCurrency")
        /\ formatted.value.t = "number"
        /\ formatted.value.num >= 0
        /\ formatted.value.num % 100 = 0
        /\ formatted.digits = 0)
           => /\ IsGroupedDollars(formatted.out)
              /\ ValueOfDigits(formatted.out) * 100 = formatted.value.num
    /\ (Called("formatCurrency") /\ formatted.value = Num(123456700) /\ formatted.digits = 0)
           => formatted.out = <<"$", "1", ",", "2", "3", "4", ",", "5", "6", "7">>

C15_Witness ==
    /\ Called("formatCurrency")
    /\ formatted.value = Num(123456700)
    /\ formatted.digits = 0
    /\ formatted.out[1] = "$"

\* the argument of formatDate is null, undefined, empty or no parseable date
NoDate(x) == ~JsTruthy(x) \/ ~NewDate(x.items).valid

\* C16: formatDate returns 'N/A' for every argument that is null, undefined,
\* empty or not a parseable date, and a formatted date for a valid date string
\* only.
C16_FormatDateNA ==
    Called("formatDate") =>
        IF NoDate(formatted.value)
        THEN formatted.out = <<"N/A">>
        ELSE /\ Len(formatted.out) >= 5
             /\ \E m \in 1..12 : formatted.out[1] = MonthShort[m]

\* a rendered text that was derived from NaN or from an infinity
NonFiniteText(text) == \E i \in 1..Len(text) : text[i] \in {"NaN", "Infinity", "INFINITY"}

\* C17: no text the dashboard shows is derived from NaN or an infinity: a
\* numeric field that holds one is shown as 'N/A' or not at all.
C17_NoNonFiniteDisplayed ==
    DataView =>
        /\ Section("valuation").k = "content" =>
               /\ ~NonFiniteText(Section("valuation").text.estimatedValue)
               /\ ~NonFiniteText(Section("valuation").text.estimatedRent)
        /\ Section("predictions").k = "content" =>
               /\ ~NonFiniteText(Section("predictions").text.predictedValue)
               /\ ~NonFiniteText(Section("predictions").text.confidence)
        /\ Section("details").k = "stray" => ~NonFiniteText(Section("details").text)
        /\ (/\ Section("details").k = "content"
            /\ Section("details").text.lotSize.k \in {"stray", "content"})
               => ~NonFiniteText(Section("details").text.lotSize.text)
        /\ Section("demographics").k = "content" =>
               \A i \in 1..Len(Section("demographics").text) :
                   ~NonFiniteText(Section("demographics").text[i].value)

\* ------------------------------------- claims about the provider clients
\* the request of a provider client failed: no response, or a status outside 2xx
ProviderFailed(o) == o.k # "response" \/ ~Is2xx(o.status)

\* C18: a provider client call sends exactly one HTTP request, and when that
\* request fails (no response, or a status that is not 2xx) the client returns
\* null or raises: it returns no record.
C18_OneRequestFailureSurfaced ==
    /\ provider.stage \in {"awaiting", "done"} => provider.requests = 1
    /\ (provider.stage = "done" /\ ProviderFailed(provider.outcome))
           => \/ provider.result.k = "raised"
              \/ provider.result.k = "returned" /\ provider.result.isNull

\* ------------------------------------------- claims about the address
\* s is not empty and has no whitespace at either end
Trimmed(s) == s # << >> /\ s[1] # " " /\ s[Len(s)] # " "

\* C19: every address the route sends to the backend is non-empty and has no
\* leading or trailing whitespace: the route sends address.trim(), and only for
\* a query that is one string with more than whitespace in it, while any other
\* query is answered with 400 or 405 and sends nothing; and whatever the text
\* of the input, SearchBar hands onSubmit nothing but that text trimmed, and
\* only when it is not empty.
C19_BackendAddressTrimmed ==
    /\ \A r \in Active :
           /\ r.backendCalls > 0 =>
                  /\ Trimmed(r.sent)
                  /\ r.query.k = "string"
                  /\ r.sent = trim(r.query.v)
           /\ (r.query.k # "string" \/ \A i \in 1..Len(r.query.v) : r.query.v[i] = " ")
                  => /\ r.backendCalls = 0
                     /\ r.stage = "responded"
                     /\ r.resp.status \in {400, 405}
                     /\ r.method = "GET" => r.resp.status = 400
    /\ \A text \in Strings :
           SubmitAllowed(trim(text), FALSE) => Trimmed(trim(text))

C19_Witness ==
    \E r \in Active :
        /\ r.backendCalls = 1
        /\ r.query.v = <<" ", "a", " ">>
        /\ r.sent = <<"a">>

\* ---------------------------------------- claims about the page's flags
Idle == ~isLoading /\ error = Undefined /\ propertyData = Null
Pending == isLoading /\ error = Undefined /\ propertyData = Null
Failed == ~isLoading /\ Truthy(error) /\ propertyData = Null
Ready == ~isLoading /\ error = Undefined /\ ~propertyData.falsy

\* C20: the page is always in one of four states: Idle before any search,
\* Pending while the search is awaited, and Failed or Ready once it has
\* settled; so error and propertyData are both null while isLoading is true,
\* and after a search settles exactly one of them is set and exactly one of the
\* alert and the dashboard is shown.
C20_FourPageStates ==
    /\ Idle \/ Pending \/ Failed \/ Ready
    /\ Idle <=> latest = 0
    /\ Pending <=> calls # {}
    /\ (latest # 0 /\ calls = {}) =>
           /\ settled.call = latest
           /\ Failed \/ Ready
           /\ Failed <=> AlertShown
           /\ Ready <=> PageDashboard = "data"
           /\ AlertShown # (PageDashboard = "data")

C20_Witness ==
    /\ latest # 0
    /\ Failed
    /\ AlertShown
    /\ PageDashboard = "nothing"
    /\ settled.got = NoResponse("timeout")

\* C21: isNotFoundError is set only together with an error; once a search has
\* settled it is set exactly when the response that search received had status
\* 404; and it is false while a search is pending, so the 404 of one search is
\* never the classification of a later one.
C21_NotFoundIff404 ==
    /\ isNotFoundError => Truthy(error)
    /\ isLoading => ~isNotFoundError
    /\ settled.call # 0 =>
           (isNotFoundError <=> (settled.got.k = "response" /\ settled.got.status = 404))
    /\ latest = 0 => ~isNotFoundError

C21_Witness ==
    /\ isNotFoundError
    /\ ~isLoading
    /\ settled.call # 0
    /\ settled.got.k = "response"
    /\ settled.got.status = 404
    /\ settled.outcome.status = 404

\* C22: while a search is pending the page shows the loading skeleton of the
\* dashboard, in app/page.tsx and in the copy of the page in part_001;
\* InsightsDashboard returns the skeleton exactly when isLoading is true,
\* nothing exactly when it is not loading and has no data, and the data view
\* exactly when it is not loading and has data.
C22_SkeletonWhilePending ==
    /\ isLoading => PageDashboard = "skeleton" /\ PageDashboardGuarded = "skeleton"
    /\ \A hasData, loading \in BOOLEAN :
           /\ DashboardBranch(hasData, loading) = "skeleton" <=> loading
           /\ DashboardBranch(hasData, loading) = "nothing" <=> (~loading /\ ~hasData)
           /\ DashboardBranch(hasData, loading) = "data" <=> (~loading /\ hasData)

\* C23: the proxy checks the method before the address: a request whose
\* method is not GET is answered 405 whatever its address is, a missing,
\* empty or whitespace-only one included, and never 400; a 400 is only ever
\* the answer to a GET request.
C23_MethodBeforeAddress ==
    \A r \in Active :
        /\ (r.method # "GET" /\ Blank(r.query)) =>
               r.stage = "responded" /\ r.resp.status = 405
        /\ r.method # "GET" => r.resp.status # 400
        /\ r.resp.status = 400 => r.method = "GET"

C23_Witness ==
    /\ \E r \in Responded :
           /\ r.method = "POST"
           /\ r.query = [k |-> "string", v |-> <<" ">>]
           /\ r.resp.status = 405
    /\ version = 2

\* the message of the 500 that answers a successful backend response the
\* route does not accept, in either revision
InvalidResponseMessage ==
    IF version = 1 THEN <<"Received invalid response from backend service.">>
    ELSE <<"Invalid backend response.">>

\* the response relays the backend's body with status 200
Relayed(r) == r.resp.status = 200 /\ r.resp.body = r.outcome.data

\* the backend call resolved, but not with status 200 and a truthy body
InvalidSuccess(o) == Resolved(o) /\ (o.status # 200 \/ o.data.falsy)

\* C24, as stated: the proxy responds 200 only if the backend responded with
\* status exactly 200 and a truthy body, and then with the backend's body; a
\* successful backend response with another 2xx status or an empty body is
\* answered 500 with the message 'Received invalid response from backend
\* service.'.
C24_InvalidSuccessIs500WithThatMessage ==
    \A r \in Responded :
        /\ r.resp.status = 200 =>
               /\ r.outcome.k = "response" /\ r.outcome.status = 200
               /\ ~r.outcome.data.falsy
               /\ r.resp.body = r.outcome.data
        /\ InvalidSuccess(r.outcome) =>
               /\ r.resp.status = 500
               /\ ResponseMessage(r) = Msg(<<"Received invalid response from backend service.">>)

\* C24, amended: the proxy responds 200 only if the backend responded with
\* status exactly 200 and a truthy body, and then with the backend's body; a
\* successful backend response with another 2xx status or an empty body is
\* answered 500 with a fixed message, 'Received invalid response from backend
\* service.' in the first revision of the route and 'Invalid backend
\* response.' in the second.
C24_InvalidSuccessIs500 ==
    \A r \in Responded :
        /\ r.resp.status = 200 =>
               /\ r.outcome.k = "response" /\ r.outcome.status = 200
               /\ ~r.outcome.data.falsy
               /\ r.resp.body = r.outcome.data
        /\ (r.outcome.k = "response" /\ r.outcome.status = 200 /\ ~r.outcome.data.falsy) =>
               Relayed(r)
        /\ InvalidSuccess(r.outcome) =>
               /\ r.resp.status = 500
               /\ ResponseMessage(r) = Msg(InvalidResponseMessage)

C24_Witness ==
    \E r \in Responded :
        /\ r.outcome = Response(201, DataBody("p1"))
        /\ r.resp = ErrorJson(500, <<"Invalid backend response.">>)

\* the control path a responded request took through handler
ControlPath(r) ==
    CASE r.method # "GET" -> "method rejected"
      [] r.backendCalls = 0 -> "address rejected"
      [] Resolved(r.outcome) /\ r.resp.status = 200 -> "backend success"
      [] Resolved(r.outcome) -> "invalid backend response"
      [] isAxiosError(r.outcome) -> "Axios error"
      [] OTHER -> "other error"

\* C25: every request to the proxy handler terminates with exactly one
\* response: a request the handler is still working on has sent none and is
\* eventually answered, a request it has returned from has sent exactly one
\* status and body, on whichever control path, and none has sent a second.
C25_ExactlyOneResponse ==
    /\ [](\A r \in Active :
              /\ r.responses <= 1
              /\ r.stage = "awaiting" => r.responses = 0 /\ r.resp = NoResp
              /\ r.stage = "responded" =>
                     /\ r.responses = 1
                     /\ r.resp.status \in 200..599
                     /\ ~r.resp.body.falsy)
    /\ (reqs[0].stage = "awaiting") ~> (reqs[0].stage = "responded" /\ reqs[0].responses = 1)

C25_Witness ==
    \E r \in Responded :
        /\ ControlPath(r) = "other error"
        /\ r.outcome = NoResponse("thrown")
        /\ r.responses = 1
        /\ r.resp.status = 500

\* C26: every search dispatched by handleSearchSubmit eventually settles:
\* whichever way its request ends, the invocation comes to its end, and
\* isLoading, true from the dispatch on, is eventually false again, so the
\* page never stays Pending forever.
C26_EverySearchSettles ==
    /\ \A i \in CallIds : (i \in calls) ~> (i \notin calls)
    /\ isLoading ~> ~isLoading
    /\ Pending ~> (Failed \/ Ready)

C26_Witness ==
    /\ settled.call # 0
    /\ settled.got = NoResponse("timeout")
    /\ Failed
    /\ calls = {}
    /\ SubmitAllowed(<<"a">>, isLoading)

\* the answer the page received: 200 with a falsy body
EmptySuccess(got) == got.k = "response" /\ got.status = 200 /\ got.data.falsy

\* C27: when /api/property answers 200 with an empty (falsy) body,
\* handleSearchSubmit ends in the Failed state with the error 'Received empty
\* data from server.' and isNotFoundError false; with the proxy behind
\* /api/property that branch is not reached, because the proxy never sends a
\* 200 response with an empty body.
C27_EmptySuccessFails ==
    /\ (settled.call # 0 /\ ~isLoading /\ EmptySuccess(settled.got)) =>
           /\ Failed
           /\ error = Msg(<<"Received empty data from server.">>)
           /\ ~isNotFoundError
    /\ \A r \in Responded : ~(r.resp.status = 200 /\ r.resp.body.falsy)
    /\ (settled.call # 0 /\ settled.resp # NoResp) => ~EmptySuccess(settled.got)
    /\ error = Msg(<<"Received empty data from server.">>) => settled.resp = NoResp

C27_Witness ==
    /\ settled.got = Response(200, EmptyBody)
    /\ settled.resp = NoResp
    /\ Failed
    /\ error = Msg(<<"Received empty data from server.">>)
    /\ ~isNotFoundError

\* the revision of the route that is not the deployed one
OtherVersion == 3 - version

\* what the other revision does with the request r, up to its await
OtherBegin(r) == handlerBegin(OtherVersion, r.method, r.query)

\* two route responses agree but for the text of their message
SameButMessage(x, y) ==
    /\ x.status = y.status
    /\ x.allow = y.allow
    /\ x.status = 200 => x.body = y.body
    /\ Truthy(MessageOf(x.body)) <=> Truthy(MessageOf(y.body))

\* C28: the two versions of the proxy handler are equivalent up to message
\* text: for every request and every backend outcome they make the same
\* decision whether to call the backend, forward the same trimmed address,
\* and respond with the same status and, on success, the same body.
C28_VersionsEquivalent ==
    \A r \in Active :
        /\ OtherBegin(r).backendCalls = r.backendCalls
        /\ OtherBegin(r).sent = r.sent
        /\ r.stage = "awaiting" => OtherBegin(r).stage = "awaiting"
        /\ (r.stage = "responded" /\ r.backendCalls = 0) =>
               /\ OtherBegin(r).stage = "responded"
               /\ SameButMessage(OtherBegin(r).resp, r.resp)
        /\ (r.stage = "responded" /\ r.backendCalls = 1) =>
               /\ OtherBegin(r).stage = "awaiting"
               /\ SameButMessage(handlerEnd(OtherVersion, OtherBegin(r), r.outcome).resp, r.resp)
               /\ handlerEnd(OtherVersion, OtherBegin(r), r.outcome).responses = r.responses

C28_Witness ==
    \E r \in Responded :
        /\ version = 2
        /\ r.sent = <<"a">>
        /\ r.outcome = NoResponse("timeout")
        /\ r.resp = ErrorJson(500, <<"Backend service error.">>)
        /\ handlerEnd(1, OtherBegin(r), r.outcome).resp
               = ErrorJson(500, <<"timeout of ", "15000", "ms exceeded">>)

\* the [date, value] pair drawn for a point
Drawn(point) == <<point.date, point.value>>
\* the pairs drawn for a sequence of points, in its order
DrawnAll(points) == [i \in 1..Len(points) |-> Drawn(points[i])]
\* x is an array with at least one item
NonEmptyArray(x) == x.t = "array" /\ Len(x.items) > 0
\* the series of the forecast chart in the rendered data view
ForecastSeries == Section("forecast").text

\* C29: the series PredictionChart draws is the last historical point, when
\* historicalData is a non-empty array, followed by all prediction points in
\* input order, and otherwise just the prediction points; in the dashboard its
\* length is len(predictionPoints) + 1 when historicalValues is non-empty and
\* len(predictionPoints) otherwise, the dashboard passing only the final
\* element of historicalValues.
C29_ForecastSeries ==
    /\ \A h \in HistoricalArrays \cup {JsUndefined}, d \in ForecastArrays :
           PredictionChart(d.items, h) =
               IF NonEmptyArray(h)
               THEN <<Drawn(h.items[Len(h.items)])>> \o DrawnAll(d.items)
               ELSE DrawnAll(d.items)
    /\ (DataView /\ Section("forecast").k = "content") =>
           LET points == Given("predictionPoints").items
               history == Given("historicalValues") IN
           /\ Len(points) > 0
           /\ NonEmptyArray(history) =>
                  /\ Len(ForecastSeries) = Len(points) + 1
                  /\ ForecastSeries[1] = Drawn(history.items[Len(history.items)])
                  /\ \A i \in 1..Len(points) : ForecastSeries[i + 1] = Drawn(points[i])
           /\ ~NonEmptyArray(history) =>
                  /\ Len(ForecastSeries) = Len(points)
                  /\ ForecastSeries = DrawnAll(points)

C29_Witness ==
    /\ DataView
    /\ Section("forecast").k = "content"
    /\ Len(Given("historicalValues").items) = MaxPoints
    /\ Len(Given("predictionPoints").items) = MaxPoints
    /\ Len(ForecastSeries) = MaxPoints + 1
    /\ ForecastSeries[1] = Drawn(HistoricalPoint(MaxPoints))

\* C30: the year count N of the heading 'Value Forecast (Next N Years)' is
\* never negative: it is 0 when predictionPoints is absent, null or empty, and
\* len(predictionPoints) - 1 otherwise.
C30_ForecastYearsNotNegative ==
    DataView =>
        /\ rendered.view.forecastYears >= 0
        /\ rendered.view.forecastYears =
               IF NonEmptyArray(Given("predictionPoints"))
               THEN Len(Given("predictionPoints").items) - 1
               ELSE 0

====
